---- MODULE Spec2Model ----
(***************************************************************************)
(* Taskify: the authentication bootstrap of App (src/src/App.tsx).         *)
(*                                                                         *)
(* The state is the redux auth slice (the Session), the localStorage       *)
(* 'token' slot, the dependency value the bootstrap effect last ran with,  *)
(* every initAuth invocation (its local variables and its position), and   *)
(* the verification requests that are in flight.                           *)
(*                                                                         *)
(* Three views read that Session or stand beside it, each with a state of  *)
(* its own: the router of App (route guard, DashboardRedirect), the        *)
(* AddMembersComponent popup and ProjectDetailsView.                       *)
(***************************************************************************)
EXTENDS Integers, Sequences, FiniteSets, TLC

VARIABLES auth, storage, deps, runs, inflight, logins, remounts,
          router, members, project

\* the bootstrap's own state
session == <<auth, storage, deps, runs, inflight, logins, remounts>>

\* the state of the three views
views == <<router, members, project>>

vars == <<auth, storage, deps, runs, inflight, logins, remounts,
          router, members, project>>

(***************************************************************************)
(* Bounds                                                                  *)
(***************************************************************************)
\* explicit logins the user performs in one behaviour
MaxLogins == 2

\* re-mounts of App (the effect runs again while the store lives on)
MaxRemounts == 1

(***************************************************************************)
(* Values                                                                  *)
(***************************************************************************)
\* localStorage.getItem('token') of an absent key
NoToken == "null"

\* a verification that does not resolve; the Session's user before login
Null == [null |-> TRUE]

\* tokens that storage may hold at process start: one per resolution shape
StoredTokens == {"tUser", "tOrg", "tBoth", "tBad"}

\* what an explicit login through the Auth page obtains
LoginTokens == {"tLogin"}

LoginIdentities == {[id |-> 20, role |-> "Project Manager"]}

\* individual-user domain: the account a token resolves to, or Null
verifyToken(token) ==
    CASE token = "tUser" -> [id |-> 7, role |-> "Admin", password |-> "x"]
      [] token = "tBoth" -> [id |-> 8, role |-> "Team Member", password |-> "y"]
      [] OTHER -> Null

\* organisation domain: the account a token resolves to, or Null
verifyOrgToken(token) ==
    CASE token = "tOrg" -> [id |-> 1, role |-> "Organisation", password |-> "z"]
      [] token = "tBoth" -> [id |-> 2, role |-> "Organisation", password |-> "w"]
      [] OTHER -> Null

\* JavaScript truthiness of `user`
Truthy(user) == user # Null

(***************************************************************************)
(* The auth slice (redux/reducers/authSlice)                               *)
(***************************************************************************)
initialState ==
    [user |-> Null, token |-> NoToken, isAuthenticated |-> FALSE, isLoading |-> TRUE]

setCredentials(state, payload) ==
    [user |-> payload.user, token |-> payload.token,
     isAuthenticated |-> TRUE, isLoading |-> FALSE]

finishInitialLoad(state) ==
    [state EXCEPT !.isLoading = FALSE]

logout(state) ==
    [state EXCEPT !.user = Null, !.token = NoToken, !.isAuthenticated = FALSE]

(***************************************************************************)
(* initAuth, piece by piece                                                *)
(***************************************************************************)
ShouldVerify_IgnoreToken(token, isAuthenticated) == ~isAuthenticated

ShouldVerify_IgnoreAuth(token, isAuthenticated) == token # NoToken

\* if (token && !isAuthenticated)
ShouldVerify(token, isAuthenticated) ==
    token # NoToken /\ ~isAuthenticated

RequestsAtStart_Both == {"verifyToken", "verifyOrgToken"}

\* the requests initAuth has issued when it first suspends
RequestsAtStart == {"verifyToken"}

NeedsOrgCheck_Always(user) == TRUE

\* if (!user) { user = await verifyOrgToken(token) }
NeedsOrgCheck(user) == ~Truthy(user)

Strip_Nothing(user) == user

\* const { password, ...userWithoutPassword } = user
Strip(user) == [f \in DOMAIN user \ {"password"} |-> user[f]]

OnAccept_AlsoRemove(state, slot, user, token) ==
    [auth |-> setCredentials(state, [user |-> Strip(user), token |-> token]),
     storage |-> NoToken,
     payload |-> [user |-> Strip(user), token |-> token],
     did |-> {"setCredentials", "removeItem"}]

\* dispatch(setCredentials({ user: userWithoutPassword, token }))
OnAccept(state, slot, user, token) ==
    [auth |-> setCredentials(state, [user |-> Strip(user), token |-> token]),
     storage |-> slot,
     payload |-> [user |-> Strip(user), token |-> token],
     did |-> {"setCredentials"}]

OnReject_KeepToken(state, slot) ==
    [auth |-> finishInitialLoad(state),
     storage |-> slot,
     payload |-> [user |-> Null, token |-> NoToken],
     did |-> {"finishInitialLoad"}]

\* else { localStorage.removeItem('token'); dispatch(finishInitialLoad()) }
OnReject(state, slot) ==
    [auth |-> finishInitialLoad(state),
     storage |-> NoToken,
     payload |-> [user |-> Null, token |-> NoToken],
     did |-> {"removeItem", "finishInitialLoad"}]

OnCatch_NoFinish(state, slot) ==
    [auth |-> state,
     storage |-> NoToken,
     payload |-> [user |-> Null, token |-> NoToken],
     did |-> {"removeItem"}]

\* catch (error) { localStorage.removeItem('token'); dispatch(finishInitialLoad()) }
OnCatch(state, slot) ==
    [auth |-> finishInitialLoad(state),
     storage |-> NoToken,
     payload |-> [user |-> Null, token |-> NoToken],
     did |-> {"removeItem", "finishInitialLoad"}]

\* if (user) {...} else {...}
Conclude(state, slot, user, token) ==
    IF Truthy(user) THEN OnAccept(state, slot, user, token)
                    ELSE OnReject(state, slot)

(***************************************************************************)
(* Bookkeeping of the invocations                                          *)
(***************************************************************************)
Req(i, call) == [run |-> i, call |-> call]

\* one initAuth invocation: its locals, its position, what it has done
NewRun(token, isAuthenticated) ==
    [token |-> token, isAuthenticated |-> isAuthenticated,
     pc |-> "start", user |-> Null,
     userOutcome |-> "none", orgOutcome |-> "none",
     payload |-> [user |-> Null, token |-> NoToken],
     did |-> {}, overlapLogin |-> FALSE]

\* the effect's dependency isAuthenticated differs from the one it last ran with
EffectPending == deps # <<auth.isAuthenticated>>

Verifying(i) == runs[i].pc \in {"verifyToken", "verifyOrgToken"}

TypeOK ==
    /\ auth.isAuthenticated \in BOOLEAN
    /\ auth.isLoading \in BOOLEAN
    /\ storage \in StoredTokens \cup LoginTokens \cup {NoToken}
    /\ deps \in {<<>>, <<TRUE>>, <<FALSE>>}
    /\ \A i \in DOMAIN runs : runs[i].pc \in {"verifyToken", "verifyOrgToken", "done"}
    /\ \A r \in inflight : r.run \in DOMAIN runs
    /\ logins \in 0..(MaxLogins + 1)
    /\ remounts \in 0..(MaxRemounts + 1)

(***************************************************************************)
(* Init: the store is constructed, App is about to run its effect          *)
(***************************************************************************)
InitSession ==
    /\ auth = initialState
    /\ storage \in StoredTokens \cup {NoToken}
    /\ deps = <<>>
    /\ runs = <<>>
    /\ inflight = {}
    /\ logins = 0
    /\ remounts = 0

\* no view is open
NoView == [open |-> FALSE]

Init ==
    /\ InitSession
    /\ router = NoView
    /\ members = NoView
    /\ project = NoView

(***************************************************************************)
(* Actions                                                                 *)
(***************************************************************************)
\* useEffect(() => { ...; initAuth() }, [dispatch, isAuthenticated]),
\* up to initAuth's first await
InitAuth ==
    /\ EffectPending
    /\ deps' = <<auth.isAuthenticated>>
    /\ LET token == storage
           i == Len(runs) + 1
           run == NewRun(token, auth.isAuthenticated)
       IN IF ShouldVerify(token, auth.isAuthenticated)
          THEN /\ runs' = Append(runs, [run EXCEPT !.pc = "verifyToken",
                                                   !.userOutcome = "pending"])
               /\ inflight' = inflight \cup {Req(i, c) : c \in RequestsAtStart}
               /\ UNCHANGED <<auth, storage>>
          ELSE /\ runs' = Append(runs, [run EXCEPT !.pc = "done",
                                                   !.did = {"finishInitialLoad"}])
               /\ auth' = finishInitialLoad(auth)
               /\ UNCHANGED <<inflight, storage>>
    /\ UNCHANGED <<logins, remounts>>
    /\ UNCHANGED views

\* let user = await verifyToken(token) settles; initAuth runs on to its
\* next await or to its end
VerifyTokenSettles(i, threw) ==
    /\ ~EffectPending
    /\ i \in DOMAIN runs
    /\ runs[i].pc = "verifyToken"
    /\ Req(i, "verifyToken") \in inflight
    /\ LET run == runs[i]
           rest == inflight \ {Req(i, "verifyToken")}
       IN IF threw
          THEN LET out == OnCatch(auth, storage)
               IN /\ auth' = out.auth
                  /\ storage' = out.storage
                  /\ inflight' = rest
                  /\ runs' = [runs EXCEPT ![i] =
                                [run EXCEPT !.pc = "done", !.userOutcome = "threw",
                                            !.did = out.did]]
          ELSE LET user == verifyToken(run.token)
               IN IF NeedsOrgCheck(user)
                  THEN /\ inflight' = rest \cup {Req(i, "verifyOrgToken")}
                       /\ runs' = [runs EXCEPT ![i] =
                                     [run EXCEPT !.pc = "verifyOrgToken",
                                                 !.user = user,
                                                 !.userOutcome = "returned",
                                                 !.orgOutcome = "pending"]]
                       /\ UNCHANGED <<auth, storage>>
                  ELSE LET out == Conclude(auth, storage, user, run.token)
                       IN /\ auth' = out.auth
                          /\ storage' = out.storage
                          /\ inflight' = rest
                          /\ runs' = [runs EXCEPT ![i] =
                                        [run EXCEPT !.pc = "done", !.user = user,
                                                    !.userOutcome = "returned",
                                                    !.payload = out.payload,
                                                    !.did = out.did]]
    /\ UNCHANGED <<deps, logins, remounts>>
    /\ UNCHANGED views

\* user = await verifyOrgToken(token) settles; initAuth runs to its end
VerifyOrgTokenSettles(i, threw) ==
    /\ ~EffectPending
    /\ i \in DOMAIN runs
    /\ runs[i].pc = "verifyOrgToken"
    /\ Req(i, "verifyOrgToken") \in inflight
    /\ LET run == runs[i]
           user == verifyOrgToken(run.token)
           out == IF threw THEN OnCatch(auth, storage)
                           ELSE Conclude(auth, storage, user, run.token)
       IN /\ auth' = out.auth
          /\ storage' = out.storage
          /\ inflight' = inflight \ {Req(i, "verifyOrgToken")}
          /\ runs' = [runs EXCEPT ![i] =
                        [run EXCEPT !.pc = "done",
                                    !.user = IF threw THEN run.user ELSE user,
                                    !.orgOutcome = IF threw THEN "threw" ELSE "returned",
                                    !.payload = out.payload,
                                    !.did = out.did]]
    /\ UNCHANGED <<deps, logins, remounts>>
    /\ UNCHANGED views

\* explicit login on the Auth page, which App renders only when the Session
\* is neither loading nor authenticated
Login(user, token) ==
    /\ ~EffectPending
    /\ ~auth.isLoading
    /\ ~auth.isAuthenticated
    /\ router.open => router.location = "/auth"
    /\ logins < MaxLogins
    /\ logins' = logins + 1
    /\ storage' = token
    /\ auth' = setCredentials(auth, [user |-> user, token |-> token])
    /\ runs' = [i \in DOMAIN runs |->
                  IF Verifying(i) THEN [runs[i] EXCEPT !.overlapLogin = TRUE]
                                  ELSE runs[i]]
    /\ UNCHANGED <<deps, inflight, remounts>>
    /\ UNCHANGED views

\* explicit logout from the dashboard, which App renders only when the
\* Session is not loading and ProtectedRoute lets the user in
Logout ==
    /\ ~EffectPending
    /\ ~auth.isLoading
    /\ auth.isAuthenticated
    /\ router.open => router.location \in {"/dashboard/admin/tasks",
                                           "/dashboard/organisation", "/dashboard/user"}
    /\ storage' = NoToken
    /\ auth' = logout(auth)
    /\ runs' = [i \in DOMAIN runs |-> [runs[i] EXCEPT !.overlapLogin = FALSE]]
    /\ UNCHANGED <<deps, inflight, logins, remounts>>
    /\ UNCHANGED views

\* App is mounted again: its effect runs afresh; the store, the storage and
\* the initAuth invocations already suspended live on (the effect returns no
\* cleanup)
Remount ==
    /\ ~EffectPending
    /\ remounts < MaxRemounts
    /\ remounts' = remounts + 1
    /\ deps' = <<>>
    /\ UNCHANGED <<auth, storage, runs, inflight, logins>>
    /\ UNCHANGED views

Settle ==
    \E i \in DOMAIN runs : \E threw \in BOOLEAN :
        \/ VerifyTokenSettles(i, threw)
        \/ VerifyOrgTokenSettles(i, threw)

UserInput ==
    \/ \E user \in LoginIdentities : \E token \in LoginTokens : Login(user, token)
    \/ Logout

\* one process start: App is mounted once
Next ==
    \/ InitAuth
    \/ Settle
    \/ UserInput

Spec == Init /\ [][Next]_vars

\* every verification call returns or throws, and effects are flushed
FairSpec == Spec /\ WF_vars(InitAuth) /\ WF_vars(Settle)

\* App may be mounted again while the store lives on
NextRemount ==
    \/ Next
    \/ Remount

SpecRemount == Init /\ [][NextRemount]_vars

(***************************************************************************)
(* The router of App: the route guard and DashboardRedirect                *)
(***************************************************************************)
\* visits (links, history, typed addresses) in one behaviour
MaxVisits == 1

\* the closed set of roles
Roles == {"Admin", "Organisation", "Project Manager", "Team Manager", "Team Member"}

allowedRoles_NoMember == {"Admin", "Organisation", "Project Manager", "Team Manager"}

\* <ProtectedRoute allowedRoles={[...]} />
allowedRoles ==
    {"Admin", "Organisation", "Project Manager", "Team Manager", "Team Member"}

\* the locations of the route table
Paths ==
    {"/", "/auth", "/dashboard", "/dashboard/admin/tasks",
     "/dashboard/organisation", "/dashboard/user"}

\* the routes nested under <Route path="/dashboard">
UnderDashboard(path) ==
    path \in {"/dashboard", "/dashboard/admin/tasks",
              "/dashboard/organisation", "/dashboard/user"}

\* the allowed-role sets of the guards wrapping a location (none or one)
GuardFor(path) ==
    IF UnderDashboard(path) THEN <<allowedRoles>> ELSE <<>>

ShowsPlaceholder_Never(state) == FALSE

\* if (isLoading) { return <LoadingSpinner /> }
ShowsPlaceholder(state) == state.isLoading

\* components/ProtectedRoute: the decision for a Session that is rendered
ProtectedRoute(state, requiredRoles) ==
    IF Truthy(state.user) /\ state.user.role \in requiredRoles
    THEN "Allowed" ELSE "Denied"

\* where ProtectedRoute sends a denied navigation
DeniedTarget == "/auth"

\* the decision App reaches for a guarded subtree
authorize(state, requiredRoles) ==
    IF ShowsPlaceholder(state) THEN "Unknown"
    ELSE ProtectedRoute(state, requiredRoles)

landingRouteFor_AdminRoot(role) ==
    CASE role = "Admin" -> "/dashboard/admin"
      [] role = "Organisation" -> "/dashboard/organisation"
      [] OTHER -> "/dashboard/user"

landingRouteFor_Self(role) ==
    CASE role = "Admin" -> "/dashboard/admin/tasks"
      [] role = "Organisation" -> "/dashboard/organisation"
      [] OTHER -> "/dashboard"

\* switch (user.role) { ... return route }
landingRouteFor(role) ==
    CASE role = "Admin" -> "/dashboard/admin/tasks"
      [] role = "Organisation" -> "/dashboard/organisation"
      [] OTHER -> "/dashboard/user"

\* the preloadRoute calls the switch arranges for
prefetchFor(role) ==
    CASE role = "Admin" -> {"/dashboard/admin"}
      [] role = "Organisation" -> {"/dashboard/organisation"}
      [] OTHER -> {}

Defer_Sync(paths) == [later |-> {}, now |-> paths]

\* setTimeout(() => preloadRoute(path), 0): run after the effect, not in it
Defer(paths) == [later |-> paths, now |-> {}]

\* useEffect(..., [user, navigate]): the effect is due after mount and
\* whenever user differs from the one it last ran with
RedirectDue(lastDeps, user) == lastDeps # <<user>>

\* resolved-identity transitions so far: accepted bootstraps and logins
Epoch ==
    logins + Cardinality({i \in DOMAIN runs : "setCredentials" \in runs[i].did})

\* the router showing a location, nothing rendered yet
RouterAt(path) ==
    [open |-> TRUE, location |-> path, mounted |-> FALSE, redirDeps |-> <<>>,
     mounts |-> 0, timers |-> {}, fires |-> <<>>, preloads |-> <<>>,
     guard |-> <<>>, visits |-> 0]

\* DashboardRedirect is on screen and its effect has yet to run
RedirectPending ==
    /\ router.mounted
    /\ router.location = "/dashboard"
    /\ authorize(auth, allowedRoles) = "Allowed"
    /\ RedirectDue(router.redirDeps, auth.user)

\* the user follows a link, goes back in history or types an address
Visit(path) ==
    /\ router.open
    /\ ~auth.isLoading
    /\ ~RedirectPending
    /\ router.visits < MaxVisits
    /\ router' = [router EXCEPT !.visits = @ + 1,
                                !.location = path,
                                !.mounted = @ /\ path = router.location]
    /\ UNCHANGED <<session, members, project>>

\* <Route path="/auth" element={isAuthenticated ? <Navigate to="/dashboard" replace /> : <Auth />} />
AuthPageRedirect ==
    /\ router.open
    /\ ~ShowsPlaceholder(auth)
    /\ router.location = "/auth"
    /\ auth.isAuthenticated
    /\ router' = [router EXCEPT !.location = "/dashboard", !.mounted = FALSE]
    /\ UNCHANGED <<session, members, project>>

\* App renders a location under /dashboard: placeholder, redirect, or the
\* guarded subtree (mounting DashboardRedirect at the index route)
RenderGuarded ==
    /\ router.open
    /\ GuardFor(router.location) # <<>>
    /\ LET required == GuardFor(router.location)[1]
           decision == authorize(auth, required)
           seen == [session |-> auth, required |-> required,
                    path |-> router.location, decision |-> decision]
       IN /\ router.guard # <<seen>> \/ (decision = "Allowed" /\ ~router.mounted
                                           /\ router.location = "/dashboard")
          /\ router' =
               IF decision = "Denied"
               THEN [router EXCEPT !.guard = <<seen>>, !.location = DeniedTarget,
                                   !.mounted = FALSE]
               ELSE IF decision = "Allowed" /\ router.location = "/dashboard"
                       /\ ~router.mounted
               THEN [router EXCEPT !.guard = <<seen>>, !.mounted = TRUE,
                                   !.redirDeps = <<>>, !.mounts = @ + 1]
               ELSE [router EXCEPT !.guard = <<seen>>,
                                   !.mounted = @ /\ decision = "Allowed"]
    /\ UNCHANGED <<session, members, project>>

\* the effect of DashboardRedirect; preloadOk is the outcome of a
\* preloadRoute call made inside the effect itself
DashboardRedirect(preloadOk) ==
    /\ router.open
    /\ RedirectPending
    /\ LET user == auth.user
           n == Len(router.fires) + 1
           plan == IF Truthy(user) THEN Defer(prefetchFor(user.role))
                                   ELSE Defer({})
           route == IF Truthy(user) THEN landingRouteFor(user.role)
                                    ELSE router.location
           navigated == Truthy(user) /\ (plan.now = {} \/ preloadOk)
           fire == [mount |-> router.mounts, epoch |-> Epoch, user |-> user,
                    scheduled |-> plan.later, ranBefore |-> plan.now,
                    navigated |-> navigated, route |-> route, replace |-> TRUE]
       IN /\ plan.now = {} => preloadOk
          /\ router' =
               [router EXCEPT
                  !.fires = Append(@, fire),
                  !.redirDeps = <<user>>,
                  !.timers = @ \cup {[fire |-> n, path |-> q] : q \in plan.later},
                  !.preloads = IF plan.now = {} THEN @
                               ELSE Append(@, [fire |-> n, ok |-> preloadOk]),
                  !.location = IF navigated THEN route ELSE @,
                  !.mounted = IF navigated THEN route = "/dashboard" ELSE @]
    /\ UNCHANGED <<session, members, project>>

\* a timer set by DashboardRedirect fires: preloadRoute returns or throws
PrefetchFires(timer, ok) ==
    /\ router.open
    /\ timer \in router.timers
    /\ router' = [router EXCEPT !.timers = @ \ {timer},
                                !.preloads = Append(@, [fire |-> timer.fire, ok |-> ok])]
    /\ UNCHANGED <<session, members, project>>

Navigation ==
    \/ \E path \in Paths : Visit(path)
    \/ AuthPageRedirect
    \/ RenderGuarded

Redirecting ==
    \/ \E preloadOk \in BOOLEAN : DashboardRedirect(preloadOk)
    \/ \E timer \in router.timers : \E ok \in BOOLEAN : PrefetchFires(timer, ok)

InitRouter ==
    /\ InitSession
    /\ router \in {RouterAt(path) : path \in Paths}
    /\ members = NoView
    /\ project = NoView

NextRouter ==
    \/ InitAuth
    \/ Settle
    \/ UserInput
    \/ Navigation
    \/ Redirecting

\* App with its router: the bootstrap, the guard and the landing dispatch
SpecRouter == InitRouter /\ [][NextRouter]_vars

(***************************************************************************)
(* AddMembersComponent (src/unnamed/part_000)                              *)
(***************************************************************************)
\* clicks on Add and on the remove buttons in one behaviour
MaxClicks == 2

\* the 'users' query: id, role and email (its characters) of every user
allUsers ==
    << [id |-> 1, role |-> "Organisation", email |-> <<"o", "w">>],
       [id |-> 2, role |-> "Admin", email |-> <<"A", "n">>],
       [id |-> 3, role |-> "Team Member", email |-> <<"a", "n">>],
       [id |-> 4, role |-> "Project Manager", email |-> <<"B", "o">>] >>

\* organisation.ownerId
ownerId == 1

\* what the search box may hold
SearchTexts == {<<>>, <<"a">>, <<"A", "N">>, <<"o">>}

\* String.prototype.toLowerCase, character by character
toLowerCase(text) ==
    [k \in DOMAIN text |->
        CASE text[k] = "A" -> "a"
          [] text[k] = "B" -> "b"
          [] text[k] = "N" -> "n"
          [] OTHER -> text[k]]

\* String.prototype.includes
includes(text, part) ==
    \E k \in 0..(Len(text) - Len(part)) :
        SubSeq(text, k + 1, k + Len(part)) = part

\* Array.prototype.includes / some, on a list of ids
Has(list, id) == \E k \in DOMAIN list : list[k] = id

\* Array.prototype.filter(id => id !== userId)
Without(list, userId) ==
    LET keep(id) == id # userId IN SelectSeq(list, keep)

UserById(id) == CHOOSE u \in {allUsers[k] : k \in DOMAIN allUsers} : u.id = id

\* allUsers.filter(...) of handleSearchUsers, as the ids it keeps
SearchFilter(email, organisationMembers) ==
    LET keep(user) ==
            /\ includes(toLowerCase(user.email), toLowerCase(email))
            /\ user.id # ownerId
            /\ user.role # "Admin"
            /\ ~Has(organisationMembers, user.id)
        kept == SelectSeq(allUsers, keep)
    IN [k \in DOMAIN kept |-> kept[k].id]

\* setSelectedUsers(prev => prev.some(...) ? prev.filter(...) : [...prev, user])
Toggle(prev, id) ==
    IF Has(prev, id) THEN Without(prev, id) ELSE Append(prev, id)

\* [...(organisation.members || []), ...selectedUsers.map(user => user.id)]
UpdatedMembers(organisationMembers, selectedUsers) ==
    organisationMembers \o selectedUsers

\* the popup just opened: nothing fetched, nothing typed
PopupOpened(serverMembers) ==
    [open |-> TRUE, server |-> serverMembers, loaded |-> FALSE, cache |-> <<>>,
     searchEmail |-> <<>>, filtered |-> <<>>, selected |-> <<>>,
     addPc |-> "idle", addList |-> <<>>, addUsers |-> <<>>, addFrom |-> <<>>,
     addOutcome |-> "none",
     removePc |-> "idle", removeList |-> <<>>, removeUser |-> 0, removeFrom |-> <<>>,
     removeOutcome |-> "none",
     sent |-> {}, clicks |-> 0, overlap |-> FALSE]

\* the 'organisation' query fetches or refetches (invalidation, window focus)
RefetchOrganisation ==
    /\ members.open
    /\ ~members.loaded \/ members.cache # members.server
    /\ members' = [members EXCEPT !.loaded = TRUE, !.cache = members.server]
    /\ UNCHANGED <<session, router, project>>

\* onChange of the search box
handleSearchUsers(email) ==
    /\ members.open
    /\ members.searchEmail # email
    /\ members' =
         IF ~members.loaded
         THEN [members EXCEPT !.searchEmail = email]
         ELSE [members EXCEPT !.searchEmail = email,
                              !.filtered = SearchFilter(email, members.cache)]
    /\ UNCHANGED <<session, router, project>>

\* onClick of an entry of the result list, which is shown while
\* filteredUsers.length > 0 && searchEmail.length > 0
toggleUserSelection(id) ==
    /\ members.open
    /\ members.loaded
    /\ Len(members.filtered) > 0 /\ Len(members.searchEmail) > 0
    /\ Has(members.filtered, id)
    /\ members' = [members EXCEPT !.selected = Toggle(@, id)]
    /\ UNCHANGED <<session, router, project>>

\* onClick of Add (disabled while nothing is selected or the mutation
\* runs): addMembersMutation up to await orgServices.updateOrg
AddClick ==
    /\ members.open
    /\ members.loaded
    /\ Len(members.selected) > 0
    /\ members.addPc = "idle"
    /\ members.clicks < MaxClicks
    /\ LET list == UpdatedMembers(members.cache, members.selected)
       IN members' = [members EXCEPT
                        !.clicks = @ + 1,
                        !.addPc = "updateOrg",
                        !.addList = list,
                        !.addUsers = members.selected,
                        !.addFrom = members.cache,
                        !.addOutcome = "none",
                        !.sent = @ \cup {list},
                        !.overlap = members.removePc # "idle"]
    /\ UNCHANGED <<session, router, project>>

\* onError of addMembersMutation: a toast, nothing else
AddFailed == [members EXCEPT !.addPc = "idle", !.addOutcome = "error"]

\* orgServices.updateOrg of the add settles
AddUpdateOrgSettles(ok) ==
    /\ members.open
    /\ members.addPc = "updateOrg"
    /\ members' =
         IF ok THEN [members EXCEPT !.server = members.addList,
                                    !.addPc = "updateUser"]
               ELSE AddFailed
    /\ UNCHANGED <<session, router, project>>

\* Promise.all(updateUser...) of the add settles; onSuccess clears the
\* selection and the search and invalidates the queries
AddUpdateUsersSettle(ok) ==
    /\ members.open
    /\ members.addPc = "updateUser"
    /\ members' =
         IF ok THEN [members EXCEPT !.addPc = "idle", !.addOutcome = "success",
                                    !.selected = <<>>, !.searchEmail = <<>>,
                                    !.filtered = <<>>]
               ELSE AddFailed
    /\ UNCHANGED <<session, router, project>>

\* onClick of a member's remove button (disabled while the mutation
\* runs): removeMemberMutation up to await orgServices.updateOrg
RemoveClick(userId) ==
    /\ members.open
    /\ members.loaded
    /\ Has(members.cache, userId)
    /\ members.removePc = "idle"
    /\ members.clicks < MaxClicks
    /\ members' = [members EXCEPT
                     !.clicks = @ + 1,
                     !.removePc = "updateOrg",
                     !.removeList = Without(members.cache, userId),
                     !.removeUser = userId,
                     !.removeFrom = members.cache,
                     !.removeOutcome = "none",
                     !.overlap = members.addPc # "idle"]
    /\ UNCHANGED <<session, router, project>>

\* orgServices.updateOrg of the remove settles
RemoveUpdateOrgSettles(ok) ==
    /\ members.open
    /\ members.removePc = "updateOrg"
    /\ members' =
         IF ok THEN [members EXCEPT !.server = members.removeList,
                                    !.removePc = "updateUser"]
               ELSE [members EXCEPT !.removePc = "idle", !.removeOutcome = "error"]
    /\ UNCHANGED <<session, router, project>>

\* userServices.updateUser of the remove settles
RemoveUpdateUserSettles(ok) ==
    /\ members.open
    /\ members.removePc = "updateUser"
    /\ members' = [members EXCEPT
                     !.removePc = "idle",
                     !.removeOutcome = IF ok THEN "success" ELSE "error"]
    /\ UNCHANGED <<session, router, project>>

Searching ==
    \/ \E email \in SearchTexts : handleSearchUsers(email)
    \/ \E id \in {allUsers[k].id : k \in DOMAIN allUsers} : toggleUserSelection(id)

Adding ==
    \/ AddClick
    \/ \E ok \in BOOLEAN : AddUpdateOrgSettles(ok)
    \/ \E ok \in BOOLEAN : AddUpdateUsersSettle(ok)

Removing ==
    \/ \E id \in {allUsers[k].id : k \in DOMAIN allUsers} : RemoveClick(id)
    \/ \E ok \in BOOLEAN : RemoveUpdateOrgSettles(ok)
    \/ \E ok \in BOOLEAN : RemoveUpdateUserSettles(ok)

\* a Session after the bootstrap, holding the given user or none
SessionOf(user) ==
    IF Truthy(user)
    THEN setCredentials(initialState, [user |-> user, token |-> "tLogin"])
    ELSE finishInitialLoad(initialState)

\* the bootstrap is over and the given user is logged in
InitSettled(user) ==
    /\ auth = SessionOf(user)
    /\ storage = IF Truthy(user) THEN "tLogin" ELSE NoToken
    /\ deps = <<Truthy(user)>>
    /\ runs = <<>>
    /\ inflight = {}
    /\ logins = 0
    /\ remounts = 0

InitMembers ==
    /\ InitSettled([id |-> 1, role |-> "Organisation"])
    /\ router = NoView
    /\ project = NoView
    /\ members \in {PopupOpened(list) : list \in {<<>>, <<4>>}}

NextMembers ==
    \/ RefetchOrganisation
    \/ Searching
    \/ Adding
    \/ Removing

\* the organisation owner working in the Add Members popup
SpecMembers == InitMembers /\ [][NextMembers]_vars

(***************************************************************************)
(* ProjectDetailsView (components/dashboardsComponents)                    *)
(***************************************************************************)
\* clicks on Save and on the remove-team icons in one behaviour
MaxCalls == 2

\* the project prop: its id, its status and the teams the server holds
ViewedProject == [projectId |-> 5, status |-> "planning", teams |-> {1, 2}]

\* the users that may have the view open
Viewers ==
    {[id |-> 7, role |-> "Admin"],
     [id |-> 5, role |-> "Organisation"],
     [id |-> 6, role |-> "Organisation"],
     [id |-> 5, role |-> "Project Manager"],
     [id |-> 8, role |-> "Team Member"]}

\* options of the status select
StatusOptions == {"planning", "active", "archived"}

CanEdit_AnyOrganisation(userCurr, proj) ==
    userCurr.role \in {"Admin", "Organisation"}

\* userCurr?.role === "Admin" ||
\* (userCurr?.role === "Organisation" && project.projectId === userCurr.id)
CanEdit(userCurr, proj) ==
    /\ Truthy(userCurr)
    /\ \/ userCurr.role = "Admin"
       \/ (userCurr.role = "Organisation" /\ proj.projectId = userCurr.id)

\* the view just mounted: fetchProjectData is on its way
ViewMounted ==
    [open |-> TRUE, isEditing |-> FALSE, isLoading |-> TRUE,
     editedProject |-> [status |-> ViewedProject.status],
     projectTeams |-> {}, serverTeams |-> ViewedProject.teams,
     handlers |-> {[id |-> 0, kind |-> "mount", pc |-> "fetch", team |-> 0]},
     calls |-> <<>>, issued |-> 0]

\* the buttons and inputs are rendered: not if (isLoading) return ...
ViewShown == project.open /\ ~project.isLoading

\* onClick of the Edit button
ClickEdit ==
    /\ ViewShown
    /\ CanEdit(auth.user, ViewedProject)
    /\ ~project.isEditing
    /\ project' = [project EXCEPT !.isEditing = TRUE]
    /\ UNCHANGED <<session, router, members>>

\* onClick of the X button that replaces Edit while editing
ClickX ==
    /\ ViewShown
    /\ CanEdit(auth.user, ViewedProject)
    /\ project.isEditing
    /\ project' = [project EXCEPT !.isEditing = FALSE]
    /\ UNCHANGED <<session, router, members>>

\* onClick of Discard
ClickDiscard ==
    /\ ViewShown
    /\ project.isEditing
    /\ project' = [project EXCEPT !.isEditing = FALSE]
    /\ UNCHANGED <<session, router, members>>

\* onChange of an input shown while editing
ChangeField(value) ==
    /\ ViewShown
    /\ project.isEditing
    /\ project.editedProject.status # value
    /\ project' = [project EXCEPT !.editedProject = [@ EXCEPT !.status = value]]
    /\ UNCHANGED <<session, router, members>>

\* onClick of Save: handleSave up to await projectServices.updateProject
handleSave ==
    /\ ViewShown
    /\ project.isEditing
    /\ project.issued < MaxCalls
    /\ project' = [project EXCEPT
                     !.issued = @ + 1,
                     !.calls = Append(@, [call |-> "updateProject",
                                          isEditing |-> project.isEditing,
                                          user |-> auth.user]),
                     !.handlers = @ \cup {[id |-> project.issued + 1, kind |-> "save",
                                           pc |-> "call", team |-> 0]}]
    /\ UNCHANGED <<session, router, members>>

\* onClick of a team's Trash2 icon: handleRemoveTeam up to await
\* projectServices.removeTeamFromProject
handleRemoveTeam(teamId) ==
    /\ ViewShown
    /\ project.isEditing
    /\ teamId \in project.projectTeams
    /\ project.issued < MaxCalls
    /\ project' = [project EXCEPT
                     !.issued = @ + 1,
                     !.calls = Append(@, [call |-> "removeTeamFromProject",
                                          isEditing |-> project.isEditing,
                                          user |-> auth.user]),
                     !.handlers = @ \cup {[id |-> project.issued + 1, kind |-> "remove",
                                           pc |-> "call", team |-> teamId]}]
    /\ UNCHANGED <<session, router, members>>

\* updateProject or removeTeamFromProject settles: on success the handler
\* goes on to fetchProjectData (setIsLoading(true)), on failure it toasts
CallSettles(h, ok) ==
    /\ project.open
    /\ h \in project.handlers
    /\ h.pc = "call"
    /\ project' =
         IF ok
         THEN [project EXCEPT
                 !.isLoading = TRUE,
                 !.serverTeams = IF h.kind = "remove" THEN @ \ {h.team} ELSE @,
                 !.handlers = (@ \ {h}) \cup {[h EXCEPT !.pc = "fetch"]}]
         ELSE [project EXCEPT !.handlers = @ \ {h}]
    /\ UNCHANGED <<session, router, members>>

\* getProjectTeams of fetchProjectData settles (finally setIsLoading(false));
\* handleSave then leaves edit mode
FetchSettles(h, ok) ==
    /\ project.open
    /\ h \in project.handlers
    /\ h.pc = "fetch"
    /\ project' = [project EXCEPT
                     !.isLoading = FALSE,
                     !.projectTeams = IF ok THEN project.serverTeams ELSE @,
                     !.isEditing = IF h.kind = "save" THEN FALSE ELSE @,
                     !.handlers = @ \ {h}]
    /\ UNCHANGED <<session, router, members>>

Editing ==
    \/ ClickEdit
    \/ ClickX
    \/ ClickDiscard
    \/ \E value \in StatusOptions : ChangeField(value)

Calling ==
    \/ handleSave
    \/ \E teamId \in ViewedProject.teams : handleRemoveTeam(teamId)
    \/ \E h \in project.handlers : \E ok \in BOOLEAN : CallSettles(h, ok)
    \/ \E h \in project.handlers : \E ok \in BOOLEAN : FetchSettles(h, ok)

InitProject ==
    /\ \E user \in Viewers : InitSettled(user)
    /\ router = NoView
    /\ members = NoView
    /\ project = ViewMounted

NextProject ==
    \/ Editing
    \/ Calling

\* a logged-in user looking at a project in ProjectDetailsView
SpecProject == InitProject /\ [][NextProject]_vars

(***************************************************************************)
(* Claims                                                                  *)
(***************************************************************************)
Done(i) == runs[i].pc = "done"

\* the invocation started a verification sequence
Verified(i) == runs[i].userOutcome # "none"

\* the step completes invocation i
Completes(i) == i \in DOMAIN runs /\ ~Done(i) /\ runs'[i].pc = "done"

\* the step is the effect starting an invocation
Starts == Len(runs') = Len(runs) + 1

ResolvesUnderBoth(token) ==
    Truthy(verifyToken(token)) /\ Truthy(verifyOrgToken(token))

\* C1: for a stored token that resolves under both domains, no invocation
\* calls verifyOrgToken; an invocation whose verifyToken returned ends by
\* dispatching setCredentials with the user-domain account (stripped), and
\* a Session holding that token holds the user-domain account.
C1_Precedence ==
    /\ \A i \in DOMAIN runs :
          ResolvesUnderBoth(runs[i].token) =>
             /\ runs[i].orgOutcome = "none"
             /\ Req(i, "verifyOrgToken") \notin inflight
             /\ (Done(i) /\ runs[i].userOutcome = "returned") =>
                   /\ "setCredentials" \in runs[i].did
                   /\ runs[i].payload.user = Strip(verifyToken(runs[i].token))
    /\ (auth.isAuthenticated /\ ResolvesUnderBoth(auth.token)) =>
          auth.user = Strip(verifyToken(auth.token))

C1_Witness ==
    \E i \in DOMAIN runs :
        /\ ResolvesUnderBoth(runs[i].token)
        /\ Done(i)
        /\ runs[i].userOutcome = "returned"
        /\ auth.isAuthenticated
        /\ auth.token = runs[i].token

\* C2: in every invocation the verifyOrgToken request is issued only after
\* the verifyToken call has returned or thrown, and the two requests are
\* never in flight together.
C2_Sequential ==
    \A i \in DOMAIN runs :
        /\ ~(Req(i, "verifyToken") \in inflight /\ Req(i, "verifyOrgToken") \in inflight)
        /\ (Req(i, "verifyOrgToken") \in inflight \/ runs[i].orgOutcome # "none") =>
              /\ runs[i].userOutcome \in {"returned", "threw"}
              /\ Req(i, "verifyToken") \notin inflight

C2_Witness ==
    \E i \in DOMAIN runs :
        /\ Req(i, "verifyOrgToken") \in inflight
        /\ runs[i].userOutcome = "returned"

\* every verification call of invocation i that was made returned null or threw
AllCallsFailed(i) ==
    /\ Verified(i)
    /\ runs[i].userOutcome = "returned" => ~Truthy(verifyToken(runs[i].token))
    /\ runs[i].orgOutcome = "returned" => ~Truthy(verifyOrgToken(runs[i].token))

\* C3: the step that completes an invocation whose verification calls all
\* returned null or threw leaves the token removed from storage, the
\* Session's identity None, not authenticated, and loading false.
C3_FailClosed ==
    [][\A i \in DOMAIN runs :
          (Completes(i) /\ AllCallsFailed(i)') =>
             /\ storage' = NoToken
             /\ auth'.user = Null
             /\ ~auth'.isAuthenticated
             /\ ~auth'.isLoading]_vars

C3_Witness ==
    \E i \in DOMAIN runs :
        /\ Done(i)
        /\ AllCallsFailed(i)
        /\ runs[i].orgOutcome \in {"returned", "threw"}
        /\ storage = NoToken

\* C4 (as claimed): an invocation whose verifyToken call threw goes on to
\* call verifyOrgToken, and accepts the account if that call resolves one.
C4_UserFailureFallsThrough ==
    \A i \in DOMAIN runs :
        runs[i].userOutcome = "threw" =>
            /\ runs[i].orgOutcome # "none"
            /\ (Done(i) /\ runs[i].orgOutcome = "returned"
                  /\ Truthy(verifyOrgToken(runs[i].token))) =>
                  "setCredentials" \in runs[i].did

\* C5: no invocation that has finished leaves loading true, and when every
\* verification call returns or throws the Session reaches loading = false
\* and stays there.
C5_LoadingAlwaysEnds ==
    /\ [](\A i \in DOMAIN runs : Done(i) => ~auth.isLoading)
    /\ <>[](~auth.isLoading)

C5_Witness ==
    \E i \in DOMAIN runs :
        /\ Done(i)
        /\ "threw" \in {runs[i].userOutcome, runs[i].orgOutcome}
        /\ ~auth.isLoading

\* C6: the effect starting an invocation while storage holds no token
\* issues no verification request and leaves the Session with identity
\* None and loading false.
C6_NoToken ==
    [][(Starts /\ storage = NoToken) =>
          /\ inflight' = inflight
          /\ runs'[Len(runs')].pc = "done"
          /\ runs'[Len(runs')].userOutcome = "none"
          /\ auth'.user = Null
          /\ ~auth'.isAuthenticated
          /\ ~auth'.isLoading]_vars

C6_Witness ==
    \E i \in DOMAIN runs :
        /\ runs[i].token = NoToken
        /\ Done(i)
        /\ ~auth.isLoading

\* C7: the effect starting an invocation while a token is stored and the
\* Session is authenticated issues no verification request and leaves the
\* Session's identity and token and the stored token unchanged.
C7_IdempotentReentry ==
    [][(Starts /\ storage # NoToken /\ auth.isAuthenticated) =>
          /\ inflight' = inflight
          /\ runs'[Len(runs')].userOutcome = "none"
          /\ auth'.user = auth.user
          /\ auth'.token = auth.token
          /\ auth'.isAuthenticated
          /\ storage' = storage]_vars

C7_Witness ==
    \E i \in DOMAIN runs :
        /\ runs[i].token # NoToken
        /\ runs[i].isAuthenticated
        /\ Done(i)
        /\ ~Verified(i)
        /\ auth.isAuthenticated

\* C8 (as claimed): at most one verification sequence is in flight at a
\* time, and the step completing a verification sequence that an explicit
\* login overlapped leaves the Session and the stored token as the login
\* wrote them.
C8_MutualExclusion ==
    /\ [](Cardinality({i \in DOMAIN runs : Verifying(i)}) <= 1)
    /\ [][\A i \in DOMAIN runs :
             (Completes(i) /\ runs[i].overlapLogin) =>
                /\ auth'.user = auth.user
                /\ auth'.token = auth.token
                /\ storage' = storage]_vars

\* C9: every invocation that started verification and has finished did
\* exactly one of setCredentials and localStorage.removeItem.
C9_ExactlyOneEffect ==
    \A i \in DOMAIN runs :
        (Done(i) /\ Verified(i)) =>
            ("setCredentials" \in runs[i].did) # ("removeItem" \in runs[i].did)

C9_Witness ==
    \E i \in DOMAIN runs :
        /\ Done(i)
        /\ Verified(i)
        /\ "setCredentials" \in runs[i].did
        /\ auth.isAuthenticated
        /\ storage = runs[i].token

\* C10: the identity held in the Session never has a password field; what
\* an invocation hands to setCredentials is the stripped account together
\* with the token it read from storage, and a Session the bootstrap
\* populated holds the token and identity some invocation handed over.
C10_CredentialStripping ==
    /\ Truthy(auth.user) => "password" \notin DOMAIN auth.user
    /\ \A i \in DOMAIN runs :
          "setCredentials" \in runs[i].did =>
             /\ "password" \notin DOMAIN runs[i].payload.user
             /\ runs[i].payload.token = runs[i].token
    /\ (auth.isAuthenticated /\ auth.token \in StoredTokens) =>
          \E i \in DOMAIN runs :
              /\ "setCredentials" \in runs[i].did
              /\ runs[i].token = auth.token
              /\ runs[i].payload.user = auth.user

C10_Witness ==
    /\ auth.isAuthenticated
    /\ auth.user.role = "Organisation"
    /\ \E i \in DOMAIN runs :
          /\ runs[i].orgOutcome = "returned"
          /\ "setCredentials" \in runs[i].did

\* every Session: loading or not, identity None or resolved with any role
Sessions ==
    [user : {Null} \cup {[id |-> 1, role |-> r] : r \in Roles \cup {"Guest"}},
     token : {"tLogin"}, isAuthenticated : {TRUE}, isLoading : BOOLEAN]

\* the decision the contract prescribes
Prescribed(state, requiredRoles) ==
    IF state.isLoading THEN "Unknown"
    ELSE IF state.user # Null /\ state.user.role \in requiredRoles THEN "Allowed"
    ELSE "Denied"

\* C11: for every Session and every requiredRoles set authorize returns
\* Unknown exactly when loading is true, and otherwise Allowed if and only
\* if the identity is resolved and its role is in requiredRoles, Denied
\* otherwise; so does every decision the router took.
C11_AuthorizationDecision ==
    /\ \A state \in Sessions \cup {auth} : \A requiredRoles \in SUBSET Roles :
          /\ authorize(state, requiredRoles) = Prescribed(state, requiredRoles)
          /\ authorize(state, requiredRoles) = "Unknown" <=> state.isLoading
    /\ \A g \in {router.guard[k] : k \in DOMAIN router.guard} :
          g.decision = Prescribed(g.session, g.required)

C11_Witness ==
    /\ router.guard # <<>>
    /\ router.guard[1].decision = "Unknown"
    /\ router.guard[1].session.isLoading
    /\ router.location = router.guard[1].path

\* the landing table of the contract
LandingTable(role) ==
    IF role = "Admin" THEN "/dashboard/admin/tasks"
    ELSE IF role = "Organisation" THEN "/dashboard/organisation"
    ELSE "/dashboard/user"

\* C12: landingRouteFor maps Admin to /dashboard/admin/tasks, Organisation
\* to /dashboard/organisation and every other role to /dashboard/user, and
\* the route a dispatch navigated to is that one whatever became of its
\* prefetch.
C12_LandingDispatch ==
    /\ \A role \in Roles \cup {"Guest"} : landingRouteFor(role) = LandingTable(role)
    /\ \A k \in DOMAIN router.fires :
          router.fires[k].navigated =>
             router.fires[k].route = LandingTable(router.fires[k].user.role)
    /\ \A k \in DOMAIN router.preloads :
          router.fires[router.preloads[k].fire].route =
             LandingTable(router.fires[router.preloads[k].fire].user.role)

C12_Witness ==
    \E k \in DOMAIN router.preloads :
        /\ ~router.preloads[k].ok
        /\ router.fires[router.preloads[k].fire].user.role = "Admin"
        /\ router.fires[router.preloads[k].fire].navigated
        /\ router.location = "/dashboard/admin/tasks"

\* the step is a preloadRoute call running, outside the effect
PrefetchStep ==
    /\ Len(router'.preloads) = Len(router.preloads) + 1
    /\ router'.fires = router.fires

\* C13: a dispatch schedules a prefetch exactly when the role is Admin or
\* Organisation, runs none before navigating, and always issues its
\* replace-navigation; a prefetch that runs, failing or not, leaves the
\* location as the navigation set it.
C13_FireAndForget ==
    /\ [](\A k \in DOMAIN router.fires :
            LET f == router.fires[k]
            IN Truthy(f.user) =>
                 /\ f.navigated
                 /\ f.replace
                 /\ f.ranBefore = {}
                 /\ (f.scheduled # {}) <=> (f.user.role \in {"Admin", "Organisation"}))
    /\ [](\A t \in router.timers : router.fires[t.fire].navigated)
    /\ [][PrefetchStep => router'.location = router.location]_vars

C13_Witness ==
    \E k \in DOMAIN router.preloads :
        /\ ~router.preloads[k].ok
        /\ router.fires[router.preloads[k].fire].navigated
        /\ router.fires[router.preloads[k].fire].scheduled # {}
        /\ router.location = router.fires[router.preloads[k].fire].route

\* C14 (as claimed): no two navigations of DashboardRedirect belong to the
\* same resolved-identity transition, and none is issued while the user is
\* None.
C14_OncePerIdentity ==
    /\ \A j, k \in DOMAIN router.fires :
          (router.fires[j].navigated /\ router.fires[k].navigated
             /\ router.fires[j].epoch = router.fires[k].epoch) => j = k
    /\ \A k \in DOMAIN router.fires :
          router.fires[k].navigated => Truthy(router.fires[k].user)

\* C14 (amended): DashboardRedirect navigates at most once per mount, only
\* for a resolved user, and away from the index route, so that it is
\* unmounted by its own navigation and cannot fire again.
C14_OncePerMount ==
    /\ \A j, k \in DOMAIN router.fires :
          router.fires[j].mount = router.fires[k].mount => j = k
    /\ \A k \in DOMAIN router.fires :
          /\ Truthy(router.fires[k].user)
          /\ router.fires[k].navigated
          /\ router.fires[k].route # "/dashboard"
          /\ router.fires[k].mount <= router.mounts
    /\ router.mounted =>
          \A k \in DOMAIN router.fires : router.fires[k].mount < router.mounts

C14_Witness ==
    /\ Len(router.fires) = 2
    /\ router.fires[1].epoch = router.fires[2].epoch
    /\ router.fires[1].mount # router.fires[2].mount
    /\ ~router.mounted

\* C15: the guard of every location under /dashboard is the one guard with
\* all five roles; for every resolved identity of the closed role set and
\* every such location the decision is Allowed, and the router never denied
\* a resolved identity.
C15_GuardAllowsEveryRole ==
    /\ \A path \in Paths :
          /\ UnderDashboard(path) => GuardFor(path) = <<Roles>>
          /\ ~UnderDashboard(path) => GuardFor(path) = <<>>
    /\ \A path \in Paths : \A state \in Sessions :
          (UnderDashboard(path) /\ ~state.isLoading /\ Truthy(state.user)
             /\ state.user.role \in Roles) =>
             authorize(state, GuardFor(path)[1]) = "Allowed"
    /\ \A g \in {router.guard[k] : k \in DOMAIN router.guard} :
          (Truthy(g.session.user) /\ ~g.session.isLoading) =>
             /\ g.required = Roles
             /\ g.decision = "Allowed"

C15_Witness ==
    /\ router.guard # <<>>
    /\ router.guard[1].decision = "Allowed"
    /\ router.guard[1].session.user.role = "Team Member"
    /\ router.guard[1].path = "/dashboard/admin/tasks"
    /\ router.location = "/dashboard/admin/tasks"

NoDuplicates(list) ==
    \A j, k \in DOMAIN list : list[j] = list[k] => j = k

\* C16 (as claimed): no member list that addMembersMutation sent to
\* updateOrg holds a user id twice, the organisation owner or an Admin.
C16_SentListClean ==
    \A list \in members.sent :
        /\ NoDuplicates(list)
        /\ ~Has(list, ownerId)
        /\ \A k \in DOMAIN list : UserById(list[k]).role # "Admin"

\* C17 (as claimed): when a remove of U and an add of S, U not in S, were
\* issued from the same cached organisation while one of them was pending
\* and both succeeded, the stored member list has every user of S and
\* does not have U.
C17_NoLostUpdate ==
    (/\ members.overlap
     /\ members.addPc = "idle" /\ members.addOutcome = "success"
     /\ members.removePc = "idle" /\ members.removeOutcome = "success"
     /\ members.addFrom = members.removeFrom
     /\ ~Has(members.addUsers, members.removeUser)) =>
        /\ \A k \in DOMAIN members.addUsers : Has(members.server, members.addUsers[k])
        /\ ~Has(members.server, members.removeUser)

\* the users the claim lets into edit mode
MayEdit(user) ==
    \/ user.role = "Admin"
    \/ (user.role = "Organisation" /\ user.id = ViewedProject.projectId)

\* the step leaves edit mode without a handler finishing: Discard or X
LeavesByButton ==
    /\ project.isEditing
    /\ ~project'.isEditing
    /\ project'.handlers = project.handlers

\* C18: edit mode is entered, and held, only by an Admin or by the
\* Organisation whose id equals the project's projectId; updateProject and
\* removeTeamFromProject are issued only while isEditing is true, hence
\* only by such a user; leaving edit mode by Discard or X changes isEditing
\* alone and leaves editedProject as it was.
C18_EditModeGate ==
    /\ [](project.open =>
            /\ project.isEditing => MayEdit(auth.user)
            /\ \A k \in DOMAIN project.calls :
                  /\ project.calls[k].isEditing
                  /\ MayEdit(project.calls[k].user))
    /\ [][(project.open /\ ~project.isEditing /\ project'.isEditing) =>
             MayEdit(auth.user)]_vars
    /\ [][(project.open /\ Len(project'.calls) > Len(project.calls)) =>
             (project.isEditing /\ MayEdit(auth.user))]_vars
    /\ [][(project.open /\ LeavesByButton) =>
             /\ project'.editedProject = project.editedProject
             /\ project' = [project EXCEPT !.isEditing = FALSE]]_vars

C18_Witness ==
    /\ project.open
    /\ auth.user = [id |-> 5, role |-> "Organisation"]
    /\ ~project.isEditing
    /\ project.handlers = {}
    /\ project.editedProject.status # ViewedProject.status
    /\ Len(project.calls) = 2
    /\ project.calls[1].call = "removeTeamFromProject"
    /\ project.calls[2].call = "updateProject"

====
